---- MODULE Spec2Model ----
(***************************************************************************)
(* askrene: the layered network view and its query engine.                 *)
(*                                                                         *)
(* The command handlers, get_routes, get_constraints and get_capacities    *)
(* are translated from plugins/askrene/askrene.c.  The modules askrene.c   *)
(* calls into (reserve.c, layer.c, gossmap.c, fp16.c, amount.c) are        *)
(* modelled from their description in the specification.                   *)
(***************************************************************************)
EXTENDS Integers, Sequences, FiniteSets, TLC

VARIABLES
    gossmap,      \* askrene->gossmap: [version, mods]; mods is the applied localmods patch
    capacities,   \* askrene->capacities: fp16 per channel index (sequence, index+1)
    layers,       \* askrene->layers: list of layers in creation order
    reserved,     \* askrene->reserved: set of reserve records
    now,          \* the wall clock, in seconds
    pc,           \* "idle" between commands, "handling" a request, "routing" inside
                  \* get_routes, "crashed"
    cmd,          \* the request being handled, NoCmd between commands
    rq,           \* the route_query of the running get_routes, NoQuery otherwise
    response      \* the reply to the last command

vars == <<gossmap, capacities, layers, reserved, now, pc, cmd, rq, response>>

(***************************************************************************)
(* Bounds of the model.                                                    *)
(***************************************************************************)
\* Width of an amount (u64 in the program).
AmountBits == 22
\* Longest path given to reserve / unreserve.
MaxPathLen == 2
\* Greatest num_htlcs a reserve command is issued for.
MaxHtlcs == 2
\* Last value of the wall clock.
MaxTime == 1
\* Number of times the gossip store advances.
MaxVersion == 1

(***************************************************************************)
(* Amounts (common/amount.h).                                              *)
(***************************************************************************)
U64_MAX == 2^AmountBits - 1

MSAT_PER_SAT == 1000

\* amount_msat_add: FALSE on overflow.
amount_msat_add(a, b) ==
    IF a + b > U64_MAX THEN [ok |-> FALSE, val |-> 0] ELSE [ok |-> TRUE, val |-> a + b]

\* amount_msat_sub: FALSE on underflow.
amount_msat_sub(a, b) ==
    IF b > a THEN [ok |-> FALSE, val |-> 0] ELSE [ok |-> TRUE, val |-> a - b]

\* amount_sat_to_msat: FALSE when the product does not fit.
amount_sat_to_msat(sat) ==
    IF sat * MSAT_PER_SAT > U64_MAX THEN [ok |-> FALSE, val |-> 0]
    ELSE [ok |-> TRUE, val |-> sat * MSAT_PER_SAT]

(***************************************************************************)
(* fp16 (common/fp16.h): 5 bit exponent, 11 bit mantissa.                  *)
(***************************************************************************)
FP16_MANTISSA_BITS == 11

FP16_MAX_EXPONENT == 31

RECURSIVE BitLen(_)
BitLen(v) == IF v = 0 THEN 0 ELSE 1 + BitLen(v \div 2)

u64_to_fp16(val, round_up) ==
    IF val = 0 THEN 0
    ELSE LET mantissa_bits == BitLen(val) IN
         IF mantissa_bits > FP16_MANTISSA_BITS
         THEN LET e0 == mantissa_bits - FP16_MANTISSA_BITS
                  m0 == val \div (2^e0)
                  m1 == IF round_up /\ (val % (2^e0)) # 0 THEN m0 + 1 ELSE m0
                  carry == m1 = 2^FP16_MANTISSA_BITS
                  m2 == IF carry THEN m1 \div 2 ELSE m1
                  e2 == IF carry THEN e0 + 1 ELSE e0
                  huge == e2 > FP16_MAX_EXPONENT
              IN  (IF huge THEN FP16_MAX_EXPONENT ELSE e2) * (2^FP16_MANTISSA_BITS)
                  + (IF huge THEN 2^FP16_MANTISSA_BITS - 1 ELSE m2)
         ELSE val

fp16_to_u64(val) ==
    (val % (2^FP16_MANTISSA_BITS)) * (2^(val \div (2^FP16_MANTISSA_BITS)))

(***************************************************************************)
(* The gossmap: snapshots of the public graph, and the localmods patch.    *)
(***************************************************************************)
Nodes == {"A", "B", "C"}

Dirs == {0, 1}

\* The public channels, in the order the gossip store lists them at a version.
\* Channel 1 has a capacity fp16 cannot hold exactly, channel 2 one it can,
\* channel 3 has no capacity at all.
StoreOrder(version) ==
    IF version = 0 THEN <<1, 3>>
    ELSE IF version % 2 = 1 THEN <<2, 1, 3>>
    ELSE <<1, 3, 2>>

ChanCapacity(scid) == IF scid = 1 THEN 2049 ELSE IF scid = 2 THEN 3 ELSE 0

ChanEnds(scid) == IF scid = 1 THEN <<"A", "B">> ELSE IF scid = 2 THEN <<"B", "C">> ELSE <<"A", "C">>

\* The channel objects of a snapshot: dense index, stable within the snapshot.
PublicChans(version) ==
    LET order == StoreOrder(version) IN
    { [scid |-> order[i], idx |-> i - 1, local |-> FALSE,
       cap |-> ChanCapacity(order[i]),
       n1 |-> ChanEnds(order[i])[1], n2 |-> ChanEnds(order[i])[2]] : i \in 1..Len(order) }

gossmap_max_chan_idx(g) == Len(StoreOrder(g.version))

NoMods == [chans |-> {}, disabled |-> {}]

\* gossmap_find_chan on the public graph, before localmods are applied.
HasPublicChan(g, scid) == \E c \in PublicChans(g.version) : c.scid = scid

PublicChan(g, scid) == CHOOSE c \in PublicChans(g.version) : c.scid = scid

\* The channels the graph shows: the snapshot's, plus the applied local ones
\* (a local channel never replaces a public one), which sit past the dense indexes.
GraphChans(g) ==
    PublicChans(g.version)
    \cup { [scid |-> lc.scid, idx |-> gossmap_max_chan_idx(g) + lc.scid, local |-> TRUE,
            cap |-> lc.capacity, n1 |-> lc.n1, n2 |-> lc.n2] :
           lc \in { m \in g.mods.chans : ~HasPublicChan(g, m.scid) } }

\* The graph as a query observes it: channels and the nodes switched off.
ObservableGraph(g) == [chans |-> GraphChans(g), disabled |-> g.mods.disabled]

gossmap_chan_idx(g, chan) == chan.idx

gossmap_chan_scid(g, chan) == chan.scid

\* gossmap_chan_get_capacity: only public channels carry an on-chain capacity.
gossmap_chan_get_capacity(g, chan) ==
    IF chan.local THEN [ok |-> FALSE, sat |-> 0] ELSE [ok |-> TRUE, sat |-> chan.cap]

gossmap_apply_localmods(g, localmods) == [g EXCEPT !.mods = localmods]

gossmap_remove_localmods(g, localmods) == [g EXCEPT !.mods = NoMods]

(***************************************************************************)
(* The reservation table (plugins/askrene/reserve.c).                      *)
(***************************************************************************)
HasReserve(table, scidd) == \E r \in table : r.scid = scidd.scid /\ r.dir = scidd.dir

find_reserve(table, scidd) == CHOOSE r \in table : r.scid = scidd.scid /\ r.dir = scidd.dir

\* One entry added: a new record with one htlc, or the amount summed and the
\* htlc count incremented; refused when the sum overflows.
reserve_add_one(table, scidd, amount) ==
    IF ~HasReserve(table, scidd)
    THEN [ok |-> TRUE,
          table |-> table \cup {[scid |-> scidd.scid, dir |-> scidd.dir,
                                 amount |-> amount, num_htlcs |-> 1]}]
    ELSE LET r == find_reserve(table, scidd)
             sum == amount_msat_add(r.amount, amount)
         IN  IF ~sum.ok THEN [ok |-> FALSE, table |-> table]
             ELSE [ok |-> TRUE,
                   table |-> (table \ {r})
                             \cup {[r EXCEPT !.amount = sum.val, !.num_htlcs = r.num_htlcs + 1]}]

\* The record is dropped only once its amount is zero as well.
reserve_remove_one_keeps_unpaid(table, scidd, amount) ==
    IF ~HasReserve(table, scidd) THEN [ok |-> FALSE, table |-> table]
    ELSE LET r == find_reserve(table, scidd)
             diff == amount_msat_sub(r.amount, amount)
         IN  IF ~diff.ok THEN [ok |-> FALSE, table |-> table]
             ELSE [ok |-> TRUE,
                   table |-> IF r.num_htlcs - 1 = 0 /\ diff.val = 0 THEN table \ {r}
                             ELSE (table \ {r})
                                  \cup {[r EXCEPT !.amount = diff.val,
                                                  !.num_htlcs = r.num_htlcs - 1]}]

\* One entry removed: refused on underflow (or with nothing reserved); the record
\* goes when its last htlc does.
reserve_remove_one(table, scidd, amount) ==
    IF ~HasReserve(table, scidd) THEN [ok |-> FALSE, table |-> table]
    ELSE LET r == find_reserve(table, scidd)
             diff == amount_msat_sub(r.amount, amount)
         IN  IF ~diff.ok THEN [ok |-> FALSE, table |-> table]
             ELSE [ok |-> TRUE,
                   table |-> IF r.num_htlcs - 1 = 0 THEN table \ {r}
                             ELSE (table \ {r})
                                  \cup {[r EXCEPT !.amount = diff.val,
                                                  !.num_htlcs = r.num_htlcs - 1]}]

\* reserves_add: entries in order; stops at the first overflow and returns its
\* index, earlier entries stay applied.
RECURSIVE reserves_add_from(_, _, _)
reserves_add_from(table, path, i) ==
    IF i > Len(path) THEN [num |-> Len(path), table |-> table]
    ELSE LET one == reserve_add_one(table, path[i].scidd, path[i].amount) IN
         IF ~one.ok THEN [num |-> i - 1, table |-> table]
         ELSE reserves_add_from(one.table, path, i + 1)

reserves_add(table, path) == reserves_add_from(table, path, 1)

\* reserves_remove: symmetric; stops at the first underflow.
RECURSIVE reserves_remove_from(_, _, _)
reserves_remove_from(table, path, i) ==
    IF i > Len(path) THEN [num |-> Len(path), table |-> table]
    ELSE LET one == reserve_remove_one(table, path[i].scidd, path[i].amount) IN
         IF ~one.ok THEN [num |-> i - 1, table |-> table]
         ELSE reserves_remove_from(one.table, path, i + 1)

reserves_remove(table, path) == reserves_remove_from(table, path, 1)

\* reserves_clear_capacities: zero the cache entry of every reserved channel
\* the graph holds.
reserves_clear_capacities(table, g, caps) ==
    [i \in 1..Len(caps) |->
        IF \E r \in table : HasPublicChan(g, r.scid) /\ PublicChan(g, r.scid).idx = i - 1
        THEN 0 ELSE caps[i]]

(***************************************************************************)
(* Layers (plugins/askrene/layer.c).                                       *)
(***************************************************************************)
CONSTRAINT_MIN == "CONSTRAINT_MIN"

CONSTRAINT_MAX == "CONSTRAINT_MAX"

\* find_layer: position of the first layer of that name in the list, 0 for NULL.
find_layer(ls, name) ==
    IF \E i \in 1..Len(ls) : ls[i].name = name
    THEN CHOOSE i \in 1..Len(ls) :
            ls[i].name = name /\ \A j \in 1..(i - 1) : ls[j].name # name
    ELSE 0

\* new_layer: an empty layer at the end of the list.
new_layer(ls, name) ==
    Append(ls, [name |-> name, local_channels |-> {}, constraints |-> {},
                disabled_nodes |-> {}])

HasLocalChannel(layer, scid) == \E lc \in layer.local_channels : lc.scid = scid

layer_find_local_channel(layer, scid) ==
    CHOOSE lc \in layer.local_channels : lc.scid = scid

\* layer_check_local_channel: same endpoints and same capacity.
layer_check_local_channel(lc, src, dst, capacity) ==
    lc.n1 = src /\ lc.n2 = dst /\ lc.capacity = capacity

\* layer_update_local_channel: insert, or replace the declaration of that scid.
layer_update_local_channel(layer, src, dst, scid, capacity, base_fee, proportional_fee, delay, htlc_min, htlc_max) ==
    [layer EXCEPT !.local_channels =
        { lc \in @ : lc.scid # scid }
        \cup {[scid |-> scid, n1 |-> src, n2 |-> dst, capacity |-> capacity,
               base_fee |-> base_fee, proportional_fee |-> proportional_fee,
               delay |-> delay, htlc_min |-> htlc_min, htlc_max |-> htlc_max]}]

SameKey(c, scidd, type) == c.scid = scidd.scid /\ c.dir = scidd.dir /\ c.type = type

HasConstraint(layer, scidd, type) == \E c \in layer.constraints : SameKey(c, scidd, type)

layer_find_constraint(layer, scidd, type) ==
    CHOOSE c \in layer.constraints : SameKey(c, scidd, type)

\* layer_update_constraint: insert, or replace the constraint of that kind on
\* that scidd.
layer_update_constraint(layer, scidd, type, timestamp, limit) ==
    [layer EXCEPT !.constraints =
        { c \in @ : ~SameKey(c, scidd, type) }
        \cup {[scid |-> scidd.scid, dir |-> scidd.dir, type |-> type,
               limit |-> limit, timestamp |-> timestamp]}]

layer_add_disabled_node(layer, node) ==
    [layer EXCEPT !.disabled_nodes = @ \cup {node}]

\* layer_trim_constraints: drop the constraints older than the cutoff, and count them.
layer_trim_constraints(layer, cutoff) ==
    [layer |-> [layer EXCEPT !.constraints = { c \in @ : ~(c.timestamp < cutoff) }],
     num_removed |-> Cardinality({ c \in layer.constraints : c.timestamp < cutoff })]

\* layer_add_localmods: the layer's local channels (the first declaration of a
\* scid wins) and its disabled nodes, registered in the patch.
layer_add_localmods(layer, g, localmods) ==
    [chans |-> localmods.chans
               \cup { lc \in layer.local_channels :
                        \A m \in localmods.chans : m.scid # lc.scid },
     disabled |-> localmods.disabled \cup layer.disabled_nodes]

\* layer_clear_overridden_capacities: zero the cache entry of every public
\* channel the layer has a constraint or a local channel for.
layer_clear_overridden_capacities(layer, g, caps) ==
    [i \in 1..Len(caps) |->
        IF \E c \in PublicChans(g.version) :
              /\ c.idx = i - 1
              /\ \/ \E k \in layer.constraints : k.scid = c.scid
                 \/ HasLocalChannel(layer, c.scid)
        THEN 0 ELSE caps[i]]

(***************************************************************************)
(* get_capacities, get_routes, get_constraints (askrene.c).                *)
(***************************************************************************)
\* The cache with every capacity rounded down instead of up.
get_capacities_round_down(g) ==
    [i \in 1..gossmap_max_chan_idx(g) |->
        IF \E c \in PublicChans(g.version) : c.idx = i - 1
        THEN LET c == CHOOSE c \in PublicChans(g.version) : c.idx = i - 1
                 cap == gossmap_chan_get_capacity(g, c)
             IN  u64_to_fp16(IF cap.ok THEN cap.sat ELSE 0, FALSE)
        ELSE 0]

\* get_capacities (lines 142-164): one fp16 per channel index, rounded up.
get_capacities(g) ==
    [i \in 1..gossmap_max_chan_idx(g) |->
        IF \E c \in PublicChans(g.version) : c.idx = i - 1
        THEN LET c == CHOOSE c \in PublicChans(g.version) : c.idx = i - 1
                 cap == gossmap_chan_get_capacity(g, c)
             IN  u64_to_fp16(IF cap.ok THEN cap.sat ELSE 0, TRUE)
        ELSE 0]

NoQuery == [live |-> FALSE]

\* The loop of get_routes without line 204: the entries the layers override
\* are kept.
RECURSIVE SelectLayersKeepsOverridden(_, _, _, _, _)
SelectLayersKeepsOverridden(ls, g, names, i, acc) ==
    IF i > Len(names) THEN acc
    ELSE LET l == find_layer(ls, names[i]) IN
         IF l = 0 THEN SelectLayersKeepsOverridden(ls, g, names, i + 1, acc)
         ELSE SelectLayersKeepsOverridden(ls, g, names, i + 1,
                  [layers |-> Append(acc.layers, l),
                   localmods |-> layer_add_localmods(ls[l], g, acc.localmods),
                   capacities |-> acc.capacities])

\* The loop of get_routes ended, not continued, by a name with no layer.
RECURSIVE SelectLayersStopAtUnknown(_, _, _, _, _)
SelectLayersStopAtUnknown(ls, g, names, i, acc) ==
    IF i > Len(names) THEN acc
    ELSE LET l == find_layer(ls, names[i]) IN
         IF l = 0 THEN acc
         ELSE SelectLayersStopAtUnknown(ls, g, names, i + 1,
                  [layers |-> Append(acc.layers, l),
                   localmods |-> layer_add_localmods(ls[l], g, acc.localmods),
                   capacities |-> layer_clear_overridden_capacities(ls[l], g, acc.capacities)])

\* The loop of get_routes over the layer names: a name without a layer is
\* skipped; a layer found is appended to rq->layers, added to the localmods and
\* its overridden capacities are cleared.
RECURSIVE SelectLayers(_, _, _, _, _)
SelectLayers(ls, g, names, i, acc) ==
    IF i > Len(names) THEN acc
    ELSE LET l == find_layer(ls, names[i]) IN
         IF l = 0 THEN SelectLayers(ls, g, names, i + 1, acc)
         ELSE SelectLayers(ls, g, names, i + 1,
                  [layers |-> Append(acc.layers, l),
                   localmods |-> layer_add_localmods(ls[l], g, acc.localmods),
                   capacities |-> layer_clear_overridden_capacities(ls[l], g, acc.capacities)])

\* The query built without line 208: reserved channels keep their cache entry.
BuildQueryKeepsReserved(ls, table, g, caps, names) ==
    LET sel == SelectLayers(ls, g, names, 1,
                   [layers |-> <<>>, localmods |-> NoMods, capacities |-> caps])
    IN  [live |-> TRUE,
         layers |-> sel.layers,
         localmods |-> sel.localmods,
         capacities |-> sel.capacities]

\* The route_query get_routes builds (lines 184-208).
BuildQuery(ls, table, g, caps, names) ==
    LET sel == SelectLayers(ls, g, names, 1,
                   [layers |-> <<>>, localmods |-> NoMods, capacities |-> caps])
    IN  [live |-> TRUE,
         layers |-> sel.layers,
         localmods |-> sel.localmods,
         capacities |-> reserves_clear_capacities(table, g, sel.capacities)]

\* The fold with each layer's limits taken over those of the layers before it.
RECURSIVE LayerFoldLastWins(_, _, _, _, _)
LayerFoldLastWins(ls, sel, scidd, i, acc) ==
    IF i > Len(sel) THEN acc
    ELSE LET layer == ls[sel[i]]
             min1 == IF HasConstraint(layer, scidd, CONSTRAINT_MIN)
                     THEN layer_find_constraint(layer, scidd, CONSTRAINT_MIN).limit
                     ELSE acc.min
             max1 == IF HasConstraint(layer, scidd, CONSTRAINT_MAX)
                     THEN layer_find_constraint(layer, scidd, CONSTRAINT_MAX).limit
                     ELSE acc.max
         IN  LayerFoldLastWins(ls, sel, scidd, i + 1, [min |-> min1, max |-> max1])

\* The fold of get_constraints over rq->layers (lines 251-259).
RECURSIVE LayerFold(_, _, _, _, _)
LayerFold(ls, sel, scidd, i, acc) ==
    IF i > Len(sel) THEN acc
    ELSE LET layer == ls[sel[i]]
             min1 == IF HasConstraint(layer, scidd, CONSTRAINT_MIN)
                        /\ layer_find_constraint(layer, scidd, CONSTRAINT_MIN).limit > acc.min
                     THEN layer_find_constraint(layer, scidd, CONSTRAINT_MIN).limit
                     ELSE acc.min
             max1 == IF HasConstraint(layer, scidd, CONSTRAINT_MAX)
                        /\ layer_find_constraint(layer, scidd, CONSTRAINT_MAX).limit < acc.max
                     THEN layer_find_constraint(layer, scidd, CONSTRAINT_MAX).limit
                     ELSE acc.max
         IN  LayerFold(ls, sel, scidd, i + 1, [min |-> min1, max |-> max1])

\* The capacity fallback of get_constraints (lines 262-278).
CapacityFallback(g, chan, max) ==
    IF max = U64_MAX
    THEN LET cap == gossmap_chan_get_capacity(g, chan) IN
         IF cap.ok /\ amount_sat_to_msat(cap.sat).ok
         THEN amount_sat_to_msat(cap.sat).val
         ELSE max
    ELSE max

\* The reservation subtraction of get_constraints (lines 281-288).
SubtractReserve(table, scidd, mm) ==
    IF HasReserve(table, scidd)
    THEN LET r == find_reserve(table, scidd)
             smin == amount_msat_sub(mm.min, r.amount)
             smax == amount_msat_sub(mm.max, r.amount)
         IN  [min |-> IF smin.ok THEN smin.val ELSE 0,
              max |-> IF smax.ok THEN smax.val ELSE 0]
    ELSE mm

\* Whether get_constraints answers from the capacity cache (line 240).
FastPath(q, g, chan) ==
    LET idx == gossmap_chan_idx(g, chan) IN
    idx < Len(q.capacities) /\ q.capacities[idx + 1] # 0

get_constraints(q, ls, table, g, chan, dir) ==
    LET idx == gossmap_chan_idx(g, chan) IN
    IF FastPath(q, g, chan)
    THEN [min |-> 0,
          max |-> (fp16_to_u64(q.capacities[idx + 1]) * MSAT_PER_SAT) % (U64_MAX + 1)]
    ELSE LET scidd == [scid |-> gossmap_chan_scid(g, chan), dir |-> dir]
             folded == LayerFold(ls, q.layers, scidd, 1, [min |-> 0, max |-> U64_MAX])
             capped == [min |-> folded.min, max |-> CapacityFallback(g, chan, folded.max)]
         IN  SubtractReserve(table, scidd, capped)

(***************************************************************************)
(* Requests and replies (plugins/libplugin.c).                             *)
(***************************************************************************)
JSONRPC2_INVALID_PARAMS == "JSONRPC2_INVALID_PARAMS"

PAY_ROUTE_NOT_FOUND == "PAY_ROUTE_NOT_FOUND"

NoCmd == [name |-> "none"]

NoResponse == [ok |-> TRUE, cmd |-> "init"]

command_fail(name, code, info) == [ok |-> FALSE, cmd |-> name, code |-> code, info |-> info]

command_finished(name, result) == [ok |-> TRUE, cmd |-> name, result |-> result]

command_check_done(name) == [ok |-> TRUE, cmd |-> name, result |-> [command_to_check |-> TRUE]]

\* No request is taken as check-only.
command_check_only_never(c) == FALSE

\* command_check_only: the request carries the check flag.
command_check_only(c) == c.check

\* The plugin is single-threaded: a request is taken when none is being handled,
\* the reply to the one before it having been sent.
Request(c) ==
    /\ pc = "idle"
    /\ pc' = "handling"
    /\ cmd' = c
    /\ response' = NoResponse
    /\ UNCHANGED <<gossmap, capacities, layers, reserved, now, rq>>

Handling(name) == pc = "handling" /\ cmd.name = name

\* A handler has run to completion and replied.
Replied == pc' = "idle" /\ cmd' = NoCmd

(***************************************************************************)
(* init (askrene.c).                                                       *)
(***************************************************************************)
Init ==
    /\ gossmap = [version |-> 0, mods |-> NoMods]
    /\ capacities = get_capacities([version |-> 0, mods |-> NoMods])
    /\ layers = <<>>
    /\ reserved = {}
    /\ now = 0
    /\ pc = "idle"
    /\ cmd = NoCmd
    /\ rq = NoQuery
    /\ response = NoResponse

\* The wall clock advances between commands.
Tick ==
    /\ pc = "idle"
    /\ now < MaxTime
    /\ now' = now + 1
    /\ UNCHANGED <<gossmap, capacities, layers, reserved, pc, cmd, rq, response>>

(***************************************************************************)
(* getroutes: json_getroutes and get_routes.                               *)
(***************************************************************************)
\* get_routes that keeps the cache it has when the store advanced.
get_routes_build_stale_cache(names, advanced) ==
    /\ advanced => gossmap.version < MaxVersion
    /\ LET g1 == IF advanced THEN [gossmap EXCEPT !.version = @ + 1] ELSE gossmap
           q == BuildQuery(layers, reserved, g1, capacities, names)
       IN  /\ capacities' = capacities
           /\ rq' = q
           /\ gossmap' = gossmap_apply_localmods(g1, q.localmods)
    /\ pc' = "routing"
    /\ UNCHANGED <<layers, reserved, now, cmd, response>>

\* get_routes up to the point where the route is computed (lines 174-210):
\* refresh, and the cache rebuilt when the store advanced; the query built;
\* the localmods applied.  `advanced' is what gossmap_refresh returns.
get_routes_build(names, advanced) ==
    /\ advanced => gossmap.version < MaxVersion
    /\ LET g1 == IF advanced THEN [gossmap EXCEPT !.version = @ + 1] ELSE gossmap
           caps1 == IF advanced THEN get_capacities(g1) ELSE capacities
           q == BuildQuery(layers, reserved, g1, caps1, names)
       IN  /\ capacities' = caps1
           /\ rq' = q
           /\ gossmap' = gossmap_apply_localmods(g1, q.localmods)
    /\ pc' = "routing"
    /\ UNCHANGED <<layers, reserved, now, cmd, response>>

GetRoutesBuild ==
    /\ Handling("getroutes")
    /\ \E advanced \in BOOLEAN : get_routes_build(cmd.layers, advanced)

\* The dummy route of get_routes (lines 214-221), as json_getroutes prints it.
DummyRoutes(dest, amount) ==
    <<[probability_ppm |-> 1000000,
       path |-> <<[short_channel_id |-> "1x2x3", direction |-> 0, node_id |-> dest,
                   amount |-> amount, delay |-> 6]>>]>>

GetRoutesReturnMissingRemove ==
    /\ pc = "routing"
    /\ response' = command_finished("getroutes", DummyRoutes(cmd.destination, cmd.amount_msat))
    /\ rq' = NoQuery
    /\ Replied
    /\ UNCHANGED <<gossmap, capacities, layers, reserved, now>>

\* The rest of get_routes (lines 213-224) and the reply of json_getroutes, when
\* the stores through the uninitialised (*routes)[0] land in writable memory:
\* the localmods are removed and the route is returned.
GetRoutesReturn ==
    /\ pc = "routing"
    /\ gossmap' = gossmap_remove_localmods(gossmap, rq.localmods)
    /\ response' = command_finished("getroutes", DummyRoutes(cmd.destination, cmd.amount_msat))
    /\ rq' = NoQuery
    /\ Replied
    /\ UNCHANGED <<capacities, layers, reserved, now>>

\* Line 215 stores through (*routes)[0], which tal_arr left uninitialised: the
\* other outcome is a fault that ends the process, with no reply.
GetRoutesCrash ==
    /\ pc = "routing"
    /\ pc' = "crashed"
    /\ UNCHANGED <<gossmap, capacities, layers, reserved, now, cmd, rq, response>>

(***************************************************************************)
(* askrene-reserve, askrene-unreserve.                                     *)
(***************************************************************************)
reserve_failed_never(num, path) == FALSE

\* Line 351: the command fails unless every entry was added.
reserve_failed(num, path) == num # Len(path)

unreserve_failed_never(num, path) == FALSE

\* Line 381: the command fails unless every entry was removed.
unreserve_failed(num, path) == num # Len(path)

\* What the failure message says of the entry that failed (lines 352-358, 382-389).
FailedEntry(table, path, num) ==
    [num |-> num, scidd |-> path[num + 1].scidd, amount |-> path[num + 1].amount,
     num_htlcs |-> IF HasReserve(table, path[num + 1].scidd)
                   THEN find_reserve(table, path[num + 1].scidd).num_htlcs ELSE 0,
     reserved |-> IF HasReserve(table, path[num + 1].scidd)
                  THEN <<find_reserve(table, path[num + 1].scidd).amount>> ELSE <<>>]

json_askrene_reserve(path) ==
    /\ LET res == reserves_add(reserved, path) IN
       /\ reserved' = res.table
       /\ response' =
            IF reserve_failed(res.num, path)
            THEN command_fail("askrene-reserve", JSONRPC2_INVALID_PARAMS,
                              FailedEntry(res.table, path, res.num))
            ELSE command_finished("askrene-reserve", <<>>)
    /\ Replied
    /\ UNCHANGED <<gossmap, capacities, layers, now, rq>>

ReserveCmd == Handling("askrene-reserve") /\ json_askrene_reserve(cmd.path)

json_askrene_unreserve(path) ==
    /\ LET res == reserves_remove(reserved, path) IN
       /\ reserved' = res.table
       /\ response' =
            IF unreserve_failed(res.num, path)
            THEN command_fail("askrene-unreserve", JSONRPC2_INVALID_PARAMS,
                              FailedEntry(res.table, path, res.num))
            ELSE command_finished("askrene-unreserve", <<>>)
    /\ Replied
    /\ UNCHANGED <<gossmap, capacities, layers, now, rq>>

UnreserveCmd == Handling("askrene-unreserve") /\ json_askrene_unreserve(cmd.path)

(***************************************************************************)
(* askrene-create-channel.                                                 *)
(***************************************************************************)
create_channel_mismatch_ignored(ls, layername, scid, src, dst, capacity) == FALSE

\* Lines 427-435: a layer that exists and has a local channel of that scid must
\* hold it with the same endpoints and capacity.
create_channel_mismatch(ls, layername, scid, src, dst, capacity) ==
    LET layer == find_layer(ls, layername) IN
    /\ layer # 0
    /\ HasLocalChannel(ls[layer], scid)
    /\ ~layer_check_local_channel(layer_find_local_channel(ls[layer], scid), src, dst, capacity)

\* A layer made on every call, whether or not one of that name exists.
FindOrNewLayerAlwaysNew(ls, layername) ==
    [layers |-> new_layer(ls, layername), layer |-> Len(ls) + 1]

\* The layer of that name, made if there is none (find_layer, then new_layer).
FindOrNewLayer(ls, layername) ==
    IF find_layer(ls, layername) = 0
    THEN [layers |-> new_layer(ls, layername), layer |-> Len(ls) + 1]
    ELSE [layers |-> ls, layer |-> find_layer(ls, layername)]

json_askrene_create_channel(c) ==
    /\ IF create_channel_mismatch(layers, c.layer, c.short_channel_id,
                                  c.source, c.destination, c.capacity_msat)
       THEN /\ response' = command_fail("askrene-create-channel", JSONRPC2_INVALID_PARAMS,
                                        "channel already exists with different values!")
            /\ UNCHANGED layers
       ELSE IF command_check_only(c)
       THEN /\ response' = command_check_done("askrene-create-channel")
            /\ UNCHANGED layers
       ELSE LET l == FindOrNewLayer(layers, c.layer) IN
            /\ layers' = [l.layers EXCEPT ![l.layer] =
                   layer_update_local_channel(@, c.source, c.destination,
                       c.short_channel_id, c.capacity_msat, c.fee_base_msat,
                       c.fee_proportional_millionths, c.delay,
                       c.htlc_minimum_msat, c.htlc_maximum_msat)]
            /\ response' = command_finished("askrene-create-channel", <<>>)
    /\ Replied
    /\ UNCHANGED <<gossmap, capacities, reserved, now, rq>>

CreateChannelCmd == Handling("askrene-create-channel") /\ json_askrene_create_channel(cmd)

(***************************************************************************)
(* askrene-inform-channel.                                                 *)
(***************************************************************************)
\* A clock stuck at the epoch.
time_now_epoch(t) == 0

\* time_now().ts.tv_sec (lines 492, 495): the wall clock, in seconds.
time_now(t) == t

inform_bad_args_both_allowed(min, max) == min = <<>> /\ max = <<>>

\* Line 474: exactly one of minimum_msat and maximum_msat (an absent parameter
\* is the empty sequence).
inform_bad_args(min, max) ==
    (min = <<>> /\ max = <<>>) \/ (min # <<>> /\ max # <<>>)

json_askrene_inform_channel(c) ==
    /\ IF inform_bad_args(c.minimum_msat, c.maximum_msat)
       THEN /\ response' = command_fail("askrene-inform-channel", JSONRPC2_INVALID_PARAMS,
                               "Must specify exactly one of maximum_msat/minimum_msat")
            /\ UNCHANGED layers
       ELSE IF command_check_only(c)
       THEN /\ response' = command_check_done("askrene-inform-channel")
            /\ UNCHANGED layers
       ELSE LET l == FindOrNewLayer(layers, c.layer)
                scidd == [scid |-> c.short_channel_id, dir |-> c.direction]
                updated == IF c.minimum_msat # <<>>
                           THEN layer_update_constraint(l.layers[l.layer], scidd,
                                    CONSTRAINT_MIN, time_now(now), c.minimum_msat[1])
                           ELSE layer_update_constraint(l.layers[l.layer], scidd,
                                    CONSTRAINT_MAX, time_now(now), c.maximum_msat[1])
            IN
            /\ layers' = [l.layers EXCEPT ![l.layer] = updated]
            /\ response' = command_finished("askrene-inform-channel",
                   [layer |-> c.layer,
                    constraint |-> layer_find_constraint(updated, scidd,
                        IF c.minimum_msat # <<>> THEN CONSTRAINT_MIN ELSE CONSTRAINT_MAX)])
    /\ Replied
    /\ UNCHANGED <<gossmap, capacities, reserved, now, rq>>

InformChannelCmd == Handling("askrene-inform-channel") /\ json_askrene_inform_channel(cmd)

(***************************************************************************)
(* askrene-disable-node, askrene-listlayers, askrene-age.                  *)
(***************************************************************************)
\* disable-node without the find_layer of line 518: a layer made each time.
json_askrene_disable_node_always_new(layername, node) ==
    /\ layers' = [new_layer(layers, layername) EXCEPT ![Len(layers) + 1] =
                      layer_add_disabled_node(@, node)]
    /\ response' = command_finished("askrene-disable-node", <<>>)
    /\ Replied
    /\ UNCHANGED <<gossmap, capacities, reserved, now, rq>>

\* json_askrene_disable_node (lines 502-528).
json_askrene_disable_node(layername, node) ==
    /\ LET l == FindOrNewLayer(layers, layername) IN
       layers' = [l.layers EXCEPT ![l.layer] = layer_add_disabled_node(@, node)]
    /\ response' = command_finished("askrene-disable-node", <<>>)
    /\ Replied
    /\ UNCHANGED <<gossmap, capacities, reserved, now, rq>>

DisableNodeCmd == Handling("askrene-disable-node") /\ json_askrene_disable_node(cmd.layer, cmd.node)

\* json_add_layers: every layer, or the one of the name given.
json_add_layers(ls, layername) ==
    IF layername = <<>> THEN ls
    ELSE SelectSeq(ls, LAMBDA l : l.name = layername[1])

json_askrene_listlayers(layername) ==
    /\ response' = command_finished("askrene-listlayers", json_add_layers(layers, layername))
    /\ Replied
    /\ UNCHANGED <<gossmap, capacities, layers, reserved, now, rq>>

ListLayersCmd == Handling("askrene-listlayers") /\ json_askrene_listlayers(cmd.layer)

\* A name with no layer taken for the first layer there is.
param_known_layer_or_first(ls, layername) ==
    IF find_layer(ls, layername) = 0 /\ ls # <<>> THEN 1 ELSE find_layer(ls, layername)

\* param_known_layer (lines 49-65): the layer must exist.
param_known_layer(ls, layername) == find_layer(ls, layername)

age_cutoff_inclusive(cutoff) == cutoff + 1

\* Line 563: the cutoff handed to layer_trim_constraints.
age_cutoff(cutoff) == cutoff

json_askrene_age(layername, cutoff) ==
    /\ LET l == param_known_layer(layers, layername) IN
       IF l = 0
       THEN /\ response' = command_fail("askrene-age", JSONRPC2_INVALID_PARAMS, "Unknown layer")
            /\ UNCHANGED layers
       ELSE LET trimmed == layer_trim_constraints(layers[l], age_cutoff(cutoff)) IN
            /\ layers' = [layers EXCEPT ![l] = trimmed.layer]
            /\ response' = command_finished("askrene-age",
                   [layer |-> layers[l].name, num_removed |-> trimmed.num_removed])
    /\ Replied
    /\ UNCHANGED <<gossmap, capacities, reserved, now, rq>>

AgeCmd == Handling("askrene-age") /\ json_askrene_age(cmd.layer, cmd.cutoff)

(***************************************************************************)
(* The requests sent to the plugin.                                        *)
(***************************************************************************)
Scidd(scid, dir) == [scid |-> scid, dir |-> dir]

HalfPlusOne == (U64_MAX \div 2) + 1

\* A quarter of the amounts' range: the sums of few reservations cover it.
Quarter == 2^(AmountBits - 2)

\* A limit under the capacity of channel 1, and one over it.
LoLimit == MSAT_PER_SAT

HiLimit == (ChanCapacity(1) + 100) * MSAT_PER_SAT

Reserve(path) == [name |-> "askrene-reserve", path |-> path]

Unreserve(path) == [name |-> "askrene-unreserve", path |-> path]

GetRoutes(source, destination, amount_msat, names) ==
    [name |-> "getroutes", source |-> source, destination |-> destination,
     amount_msat |-> amount_msat, layers |-> names]

\* An absent minimum_msat or maximum_msat is the empty sequence.
InformChannel(layer, scid, dir, min, max, check) ==
    [name |-> "askrene-inform-channel", layer |-> layer, short_channel_id |-> scid,
     direction |-> dir, minimum_msat |-> min, maximum_msat |-> max, check |-> check]

CreateChannel(layer, src, dst, scid, capacity, fee, check) ==
    [name |-> "askrene-create-channel", layer |-> layer, source |-> src,
     destination |-> dst, short_channel_id |-> scid, capacity_msat |-> capacity,
     htlc_minimum_msat |-> 0, htlc_maximum_msat |-> capacity, fee_base_msat |-> fee,
     fee_proportional_millionths |-> 0, delay |-> 6, check |-> check]

DisableNode(layer, node) == [name |-> "askrene-disable-node", layer |-> layer, node |-> node]

\* An absent layer parameter is the empty sequence.
ListLayers(layer) == [name |-> "askrene-listlayers", layer |-> layer]

Age(layer, cutoff) == [name |-> "askrene-age", layer |-> layer, cutoff |-> cutoff]

\* A reserve is asked for while no record would pass MaxHtlcs.
WithinMaxHtlcs(c) ==
    c.name = "askrene-reserve"
        => \A r \in reserves_add(reserved, c.path).table : r.num_htlcs <= MaxHtlcs

(***************************************************************************)
(* The reservation commands on their own.                                  *)
(***************************************************************************)
\* Channel 2 is not in the first snapshot.
ReserveEntries ==
    [scidd : {Scidd(1, 0)}, amount : {0, Quarter, HalfPlusOne}]
    \cup [scidd : {Scidd(2, 1)}, amount : {Quarter}]

ReserveScidds == { e.scidd : e \in ReserveEntries }

ReservePaths == UNION { [1..n -> ReserveEntries] : n \in 0..MaxPathLen }

ReserveRequests ==
    { Reserve(path) : path \in ReservePaths } \cup { Unreserve(path) : path \in ReservePaths }

NextReserve ==
    \/ \E c \in ReserveRequests : WithinMaxHtlcs(c) /\ Request(c)
    \/ ReserveCmd
    \/ UnreserveCmd

SpecReserve == Init /\ [][NextReserve]_vars

\* What a path's first k entries say of one scidd.
PrefixOn(path, k, scidd) == { i \in 1..k : path[i].scidd = scidd }

RECURSIVE SumAmounts(_, _)
SumAmounts(path, is) ==
    IF is = {} THEN 0
    ELSE LET i == CHOOSE j \in is : TRUE IN path[i].amount + SumAmounts(path, is \ {i})

ReservedAmount(table, scidd) ==
    IF HasReserve(table, scidd) THEN find_reserve(table, scidd).amount ELSE 0

NumHtlcs(table, scidd) ==
    IF HasReserve(table, scidd) THEN find_reserve(table, scidd).num_htlcs ELSE 0

AtMostOneRecord(table) ==
    \A r1, r2 \in table : (r1.scid = r2.scid /\ r1.dir = r2.dir) => r1 = r2

\* The table with the first k entries of the path added to it.
AddedPrefix(table, path, k) ==
    { [scid |-> sd.scid, dir |-> sd.dir,
       amount |-> ReservedAmount(table, sd) + SumAmounts(path, PrefixOn(path, k, sd)),
       num_htlcs |-> NumHtlcs(table, sd) + Cardinality(PrefixOn(path, k, sd))] :
      sd \in { x \in ReserveScidds : HasReserve(table, x) \/ PrefixOn(path, k, x) # {} } }

\* Entry k is one whose amount, added to what is reserved on its scidd by then,
\* exceeds the greatest amount.
OverflowsAt(table, path, k) ==
    ReservedAmount(table, path[k].scidd)
        + SumAmounts(path, PrefixOn(path, k, path[k].scidd)) > U64_MAX

FirstOverflow(table, path) ==
    IF \E k \in 1..Len(path) : OverflowsAt(table, path, k)
    THEN CHOOSE k \in 1..Len(path) :
            OverflowsAt(table, path, k) /\ \A j \in 1..(k - 1) : ~OverflowsAt(table, path, j)
    ELSE 0

\* C5: a reserve command applies its entries in order; at the first entry k that
\* overflows the amount reserved on its scidd the command fails with
\* invalid-params naming k, entries before k stay in the table and none at or
\* after k is applied; with no overflow every entry is applied and it succeeds.
C5_ReserveOverflow ==
    [][Handling("askrene-reserve") =>
         LET k == FirstOverflow(reserved, cmd.path) IN
         IF k = 0
         THEN response'.ok /\ reserved' = AddedPrefix(reserved, cmd.path, Len(cmd.path))
         ELSE /\ ~response'.ok
              /\ response'.cmd = "askrene-reserve"
              /\ response'.code = JSONRPC2_INVALID_PARAMS
              /\ response'.info.num = k - 1
              /\ response'.info.scidd = cmd.path[k].scidd
              /\ reserved' = AddedPrefix(reserved, cmd.path, k - 1)]_vars

\* A second reserve of u64::MAX/2 + 1 was refused at entry 0 and the table holds
\* the first reservation only.
C5_Witness ==
    /\ ~response.ok
    /\ response.cmd = "askrene-reserve"
    /\ response.info.num = 0
    /\ response.info.amount = HalfPlusOne
    /\ reserved = {[scid |-> 1, dir |-> 0, amount |-> HalfPlusOne, num_htlcs |-> 1]}

\* The table with the first k entries of the path removed from it: a record
\* goes with its last htlc.
RemovedPrefix(table, path, k) ==
    { [scid |-> sd.scid, dir |-> sd.dir,
       amount |-> ReservedAmount(table, sd) - SumAmounts(path, PrefixOn(path, k, sd)),
       num_htlcs |-> NumHtlcs(table, sd) - Cardinality(PrefixOn(path, k, sd))] :
      sd \in { x \in ReserveScidds :
                  HasReserve(table, x)
                  /\ NumHtlcs(table, x) > Cardinality(PrefixOn(path, k, x)) } }

\* Entry k removes more than is reserved on its scidd once the entries before
\* it are removed (nothing is, where no record is left).
UnderflowsAt(table, path, k) ==
    LET before == RemovedPrefix(table, path, k - 1) IN
    \/ ~HasReserve(before, path[k].scidd)
    \/ path[k].amount > ReservedAmount(before, path[k].scidd)

FirstUnderflow(table, path) ==
    IF \E k \in 1..Len(path) : UnderflowsAt(table, path, k)
    THEN CHOOSE k \in 1..Len(path) :
            UnderflowsAt(table, path, k) /\ \A j \in 1..(k - 1) : ~UnderflowsAt(table, path, j)
    ELSE 0

\* C6: an unreserve command removes its entries in order; at the first entry k
\* that removes more than is reserved on its scidd (or finds no reservation) the
\* command fails with invalid-params naming k, that record keeps its amount and
\* num_htlcs, entries before k stay removed and none at or after k is processed.
C6_UnreserveUnderflow ==
    [][Handling("askrene-unreserve") =>
         LET k == FirstUnderflow(reserved, cmd.path) IN
         IF k = 0
         THEN response'.ok /\ reserved' = RemovedPrefix(reserved, cmd.path, Len(cmd.path))
         ELSE /\ ~response'.ok
              /\ response'.cmd = "askrene-unreserve"
              /\ response'.code = JSONRPC2_INVALID_PARAMS
              /\ response'.info.num = k - 1
              /\ response'.info.scidd = cmd.path[k].scidd
              /\ reserved' = RemovedPrefix(reserved, cmd.path, k - 1)
              /\ response'.info.num_htlcs = NumHtlcs(reserved', cmd.path[k].scidd)]_vars

\* An unreserve was refused at its second entry, on a scidd that keeps its record.
C6_Witness ==
    /\ ~response.ok
    /\ response.cmd = "askrene-unreserve"
    /\ response.info.num = 1
    /\ response.info.num_htlcs > 0
    /\ response.info.reserved # <<>>

IsReserveResult(table, path) ==
    \A sd \in ReserveScidds :
        PrefixOn(path, Len(path), sd) # {} =>
            /\ HasReserve(table, sd)
            /\ ReservedAmount(table, sd) >= SumAmounts(path, PrefixOn(path, Len(path), sd))
            /\ NumHtlcs(table, sd) >= Cardinality(PrefixOn(path, Len(path), sd))
            /\ NumHtlcs(table, sd) = Cardinality(PrefixOn(path, Len(path), sd)) =>
                  ReservedAmount(table, sd) = SumAmounts(path, PrefixOn(path, Len(path), sd))

\* The table that reserve was made from.
BeforeReserve(table, path) ==
    { [scid |-> sd.scid, dir |-> sd.dir,
       amount |-> ReservedAmount(table, sd) - SumAmounts(path, PrefixOn(path, Len(path), sd)),
       num_htlcs |-> NumHtlcs(table, sd) - Cardinality(PrefixOn(path, Len(path), sd))] :
      sd \in { x \in ReserveScidds :
                 /\ HasReserve(table, x)
                 /\ NumHtlcs(table, x) > Cardinality(PrefixOn(path, Len(path), x)) } }

\* C21: a reserve that goes through leaves the table with its whole path
\* added; an unreserve of a path on the table a reserve of that path left,
\* whatever the table before, goes through and leaves the table that was
\* before, records the reserve made being gone, also when the path names a
\* scidd more than once.
C21_ReserveRoundTrip ==
    [][/\ (Handling("askrene-reserve") /\ response'.ok) =>
             /\ reserved' = AddedPrefix(reserved, cmd.path, Len(cmd.path))
             /\ IsReserveResult(reserved', cmd.path)
             /\ BeforeReserve(reserved', cmd.path) = reserved
       /\ (Handling("askrene-unreserve") /\ IsReserveResult(reserved, cmd.path)) =>
             /\ response'.ok
             /\ reserved' = BeforeReserve(reserved, cmd.path)
             /\ UNCHANGED <<gossmap, capacities, layers>>]_vars

\* An unreserve is being handled of a path that names (1, 0) twice, on the
\* table a reserve of that path left: its record is the path's alone, beside
\* a record of another scidd.
C21_Witness ==
    /\ Handling("askrene-unreserve")
    /\ Len(cmd.path) = 2
    /\ cmd.path[1] = [scidd |-> Scidd(1, 0), amount |-> Quarter]
    /\ cmd.path[2] = [scidd |-> Scidd(1, 0), amount |-> Quarter]
    /\ IsReserveResult(reserved, cmd.path)
    /\ NumHtlcs(reserved, Scidd(1, 0)) = 2
    /\ HasReserve(reserved, Scidd(2, 1))

(***************************************************************************)
(* Queries over layers and reservations.                                   *)
(***************************************************************************)
\* "LX" names no layer.
QueryLayerLists ==
    {<<>>, <<"L1">>, <<"L2">>, <<"L1", "L2">>, <<"L2", "L1">>, <<"LX", "L1">>}

QueryRequests ==
    { GetRoutes("A", "B", LoLimit, names) : names \in QueryLayerLists }
    \cup { InformChannel("L1", 1, 0, <<LoLimit>>, <<>>, FALSE),
           InformChannel("L1", 1, 0, <<>>, <<LoLimit>>, FALSE),
           InformChannel("L1", 1, 0, <<>>, <<HiLimit>>, FALSE),
           InformChannel("L2", 1, 0, <<HiLimit>>, <<>>, FALSE),
           InformChannel("L2", 1, 0, <<>>, <<LoLimit>>, FALSE) }
    \cup { CreateChannel("L1", "B", "C", 2, LoLimit, 1, FALSE),
           DisableNode("L2", "B") }
    \cup { Reserve(<<[scidd |-> sd, amount |-> Quarter]>>) : sd \in {Scidd(1, 0), Scidd(1, 1)} }
    \cup { Unreserve(<<[scidd |-> sd, amount |-> Quarter]>>) : sd \in {Scidd(1, 0), Scidd(1, 1)} }

NextQuery ==
    \/ \E c \in QueryRequests : WithinMaxHtlcs(c) /\ Request(c)
    \/ GetRoutesBuild
    \/ GetRoutesReturn
    \/ GetRoutesCrash
    \/ InformChannelCmd
    \/ CreateChannelCmd
    \/ DisableNodeCmd
    \/ ReserveCmd
    \/ UnreserveCmd

SpecQuery == Init /\ [][NextQuery]_vars

\* C1: between two commands no overlay patch is applied to the graph, and a
\* getroutes that returns leaves the graph as it was before the patch was
\* applied: the snapshot the query ran on, with nothing of the patch left.
C1_OverlayBalance ==
    /\ [](pc \in {"idle", "handling"} => gossmap.mods = NoMods)
    /\ [][(pc = "routing" /\ pc' = "idle") =>
            /\ response'.ok
            /\ ObservableGraph(gossmap') = ObservableGraph([gossmap EXCEPT !.mods = NoMods])
            /\ ObservableGraph(gossmap') =
                  [chans |-> PublicChans(gossmap.version), disabled |-> {}]]_vars

\* A query runs with a patch applied that adds a local channel and disables a node.
C1_Witness ==
    /\ pc = "routing"
    /\ gossmap.mods.chans # {}
    /\ gossmap.mods.disabled # {}
    /\ ObservableGraph(gossmap) # ObservableGraph([gossmap EXCEPT !.mods = NoMods])

\* The layers a query selected hold no constraint on the scidd.
NoSelectedConstraint(q, ls, scidd) ==
    \A i \in 1..Len(q.layers) :
        \A c \in ls[q.layers[i]].constraints : ~(c.scid = scidd.scid /\ c.dir = scidd.dir)

\* The layers a query selected say nothing of the channel.
NoSelectedAssertion(q, ls, scid) ==
    \A i \in 1..Len(q.layers) :
        /\ \A c \in ls[q.layers[i]].constraints : c.scid # scid
        /\ ~HasLocalChannel(ls[q.layers[i]], scid)

SaturatingSub(a, b) == IF b > a THEN 0 ELSE a - b

\* C2: in the context getroutes builds, a public channel with a reservation of
\* R on (scid, dir) and no constraint on it in any selected layer has min = 0 and
\* max = capacity in msat less R, saturating at 0; the answer never comes from
\* the capacity cache.
C2_ReservationObserved ==
    pc = "routing" =>
        \A chan \in PublicChans(gossmap.version) : \A dir \in Dirs :
            LET scidd == Scidd(chan.scid, dir) IN
            (HasReserve(reserved, scidd) /\ NoSelectedConstraint(rq, layers, scidd)) =>
                /\ ~FastPath(rq, gossmap, chan)
                /\ get_constraints(rq, layers, reserved, gossmap, chan, dir)
                     = [min |-> 0,
                        max |-> SaturatingSub(chan.cap * MSAT_PER_SAT,
                                              find_reserve(reserved, scidd).amount)]

\* A query that selected a layer runs with a quarter reserved on channel 1,
\* direction 1, which leaves the capacity less a quarter.
C2_Witness ==
    /\ pc = "routing"
    /\ rq.layers # <<>>
    /\ HasReserve(reserved, Scidd(1, 1))
    /\ find_reserve(reserved, Scidd(1, 1)).amount = Quarter
    /\ get_constraints(rq, layers, reserved, gossmap, PublicChan(gossmap, 1), 1).max
          = ChanCapacity(1) * MSAT_PER_SAT - Quarter
    /\ ChanCapacity(1) * MSAT_PER_SAT - Quarter > 0

\* The capacity the cache holds for a channel, back in msat.
CachedCapacityMsat(chan) == fp16_to_u64(u64_to_fp16(chan.cap, TRUE)) * MSAT_PER_SAT

\* C3 as stated: a channel no selected layer says anything of, with no
\* reservation on (scid, dir), gets exactly (0, capacity in msat), from the
\* cache or not.
C3_Original ==
    pc = "routing" =>
        \A chan \in PublicChans(gossmap.version) : \A dir \in Dirs :
            (NoSelectedAssertion(rq, layers, chan.scid)
             /\ ~HasReserve(reserved, Scidd(chan.scid, dir))) =>
                get_constraints(rq, layers, reserved, gossmap, chan, dir)
                    = [min |-> 0, max |-> chan.cap * MSAT_PER_SAT]

\* C3, amended: such a channel gets min = 0; off the cache (slow path) max is
\* the capacity in msat exactly; from the cache (fast path) max is the capacity
\* in satoshis rounded up to what fp16 holds, times 1000: never under the
\* capacity, and the capacity itself when fp16 holds it exactly.
C3_FastSlowAgreement ==
    pc = "routing" =>
        \A chan \in PublicChans(gossmap.version) : \A dir \in Dirs :
            (NoSelectedAssertion(rq, layers, chan.scid)
             /\ ~HasReserve(reserved, Scidd(chan.scid, dir))) =>
                LET got == get_constraints(rq, layers, reserved, gossmap, chan, dir) IN
                /\ got.min = 0
                /\ got.max >= chan.cap * MSAT_PER_SAT
                /\ FastPath(rq, gossmap, chan) => got.max = CachedCapacityMsat(chan)
                /\ ~FastPath(rq, gossmap, chan) => got.max = chan.cap * MSAT_PER_SAT
                /\ chan.cap < 2^FP16_MANTISSA_BITS => got.max = chan.cap * MSAT_PER_SAT

\* A query on the second snapshot answers from the cache for channel 1, over
\* its capacity, and for channel 2, exactly.
C3_Witness ==
    /\ pc = "routing"
    /\ gossmap.version = 1
    /\ rq.layers # <<>>
    /\ NoSelectedAssertion(rq, layers, 1)
    /\ NoSelectedAssertion(rq, layers, 2)
    /\ reserved = {}
    /\ FastPath(rq, gossmap, PublicChan(gossmap, 1))
    /\ FastPath(rq, gossmap, PublicChan(gossmap, 2))
    /\ get_constraints(rq, layers, reserved, gossmap, PublicChan(gossmap, 1), 0).max
          > ChanCapacity(1) * MSAT_PER_SAT
    /\ get_constraints(rq, layers, reserved, gossmap, PublicChan(gossmap, 2), 0).max
          = ChanCapacity(2) * MSAT_PER_SAT

\* What get_constraints answers for a public channel in the context a getroutes
\* with these layer names would build from the given state.
QueryAnswer(ls, table, g, caps, names, scid, dir) ==
    LET q == BuildQuery(ls, table, g, caps, names)
        g1 == gossmap_apply_localmods(g, q.localmods)
    IN  get_constraints(q, ls, table, g1, PublicChan(g1, scid), dir)

\* The inform-channel being handled adds a constraint where its layer had none
\* of that kind on that scidd.
AddsNewConstraint(c, type) ==
    /\ ~c.check
    /\ IF type = CONSTRAINT_MIN THEN c.minimum_msat # <<>> /\ c.maximum_msat = <<>>
       ELSE c.maximum_msat # <<>> /\ c.minimum_msat = <<>>
    /\ \/ find_layer(layers, c.layer) = 0
       \/ ~HasConstraint(layers[find_layer(layers, c.layer)],
                         Scidd(c.short_channel_id, c.direction), type)

\* C4 as stated: for every query (same layer names, reservations and graph),
\* an inform-channel that adds a new MIN constraint never decreases the min
\* get_constraints answers, and one that adds a new MAX never increases the max.
C4_Original ==
    [][Handling("askrene-inform-channel") =>
         \A names \in QueryLayerLists :
            \A chan \in PublicChans(gossmap.version) : \A dir \in Dirs :
               LET before == QueryAnswer(layers, reserved, gossmap, capacities,
                                         names, chan.scid, dir)
                   after == QueryAnswer(layers', reserved', gossmap', capacities',
                                        names, chan.scid, dir)
               IN  /\ AddsNewConstraint(cmd, CONSTRAINT_MIN) => after.min >= before.min
                   /\ AddsNewConstraint(cmd, CONSTRAINT_MAX) => after.max <= before.max]_vars

\* The half of C4 on MIN constraints alone.
C4_MinOnly ==
    [][Handling("askrene-inform-channel") =>
         \A names \in QueryLayerLists :
            \A chan \in PublicChans(gossmap.version) : \A dir \in Dirs :
               LET before == QueryAnswer(layers, reserved, gossmap, capacities,
                                         names, chan.scid, dir)
                   after == QueryAnswer(layers', reserved', gossmap', capacities',
                                        names, chan.scid, dir)
               IN  AddsNewConstraint(cmd, CONSTRAINT_MIN) => after.min >= before.min]_vars

\* C15: the shared cache holds, for every channel index of the current
\* snapshot and no other, the fp16 of that channel's capacity, whatever the
\* queries before zeroed in their clones; and each entry of a query's clone is
\* zero or the fp16 of the capacity of the channel that has that index in the
\* snapshot the query runs on.
C15_CacheIsolation ==
    /\ pc # "crashed" =>
          /\ Len(capacities) = Cardinality(PublicChans(gossmap.version))
          /\ \A chan \in PublicChans(gossmap.version) :
                capacities[chan.idx + 1] = u64_to_fp16(chan.cap, TRUE)
    /\ pc = "routing" =>
          /\ Len(rq.capacities) = Len(capacities)
          /\ \A chan \in PublicChans(gossmap.version) :
                rq.capacities[chan.idx + 1] \in {0, u64_to_fp16(chan.cap, TRUE)}

\* A query on the second snapshot, whose channels have other indexes than in
\* the first, has zeroed in its clone the entry of a reserved channel and
\* that of a channel a selected layer constrains; the shared cache has both.
C15_Witness ==
    /\ pc = "routing"
    /\ gossmap.version = 1
    /\ reserved # {}
    /\ rq.layers # <<>>
    /\ \A chan \in PublicChans(gossmap.version) :
          chan.scid = 1 => (rq.capacities[chan.idx + 1] = 0 /\ capacities[chan.idx + 1] # 0)
    /\ \E chan \in PublicChans(gossmap.version) :
          chan.scid = 2 /\ rq.capacities[chan.idx + 1] # 0

\* The names of a layers list that are names of layers, in their order.
KnownNames(ls, names) ==
    SelectSeq(names, LAMBDA n : \E i \in 1..Len(ls) : ls[i].name = n)

\* C16: a getroutes makes no layer, whatever names its list holds; the context
\* it builds (selected layers, overlay patch, clone of the cache with its
\* cleared entries) and the patch it applies are those of the same request
\* with the names of no layer left out; and it returns its route all the same.
C16_UnknownLayersSkipped ==
    [][/\ Handling("getroutes") =>
             LET known == BuildQuery(layers, reserved, [gossmap' EXCEPT !.mods = NoMods],
                                     capacities', KnownNames(layers, cmd.layers))
             IN  /\ pc' = "routing"
                 /\ layers' = layers
                 /\ rq' = known
                 /\ gossmap'.mods = known.localmods
                 /\ \A i \in 1..Len(rq'.layers) :
                       layers[rq'.layers[i]].name = KnownNames(layers, cmd.layers)[i]
       /\ (pc = "routing" /\ pc' = "idle") =>
             /\ layers' = layers
             /\ response'.ok
             /\ Len(response'.result) = 1
             /\ response'.result[1].path[1].node_id = cmd.destination
             /\ response'.result[1].path[1].amount = cmd.amount_msat]_vars

\* A query naming a layer that does not exist before one that does, which has
\* a local channel and a constraint: the patch is applied, a cache entry
\* cleared, and no layer LX is made.
C16_Witness ==
    /\ pc = "routing"
    /\ cmd.layers = <<"LX", "L1">>
    /\ Len(rq.layers) = 1
    /\ layers[rq.layers[1]].name = "L1"
    /\ gossmap.mods.chans # {}
    /\ rq.capacities # capacities
    /\ reserved = {}
    /\ \A i \in 1..Len(layers) : layers[i].name # "LX"

(***************************************************************************)
(* Local channels declared in layers.                                      *)
(***************************************************************************)
ChannelEnds == {<<"B", "C">>, <<"C", "B">>}

ChannelRequests ==
    { CreateChannel("L1", e[1], e[2], scid, cap, fee, FALSE) :
          e \in ChannelEnds, scid \in {2, 4}, cap \in {LoLimit, HiLimit}, fee \in {1, 2} }
    \cup { CreateChannel("L1", e[1], e[2], 2, cap, 1, TRUE) :
          e \in ChannelEnds, cap \in {LoLimit, HiLimit} }
    \cup { CreateChannel("L2", "B", "C", 2, cap, 1, FALSE) : cap \in {LoLimit, HiLimit} }
    \cup { InformChannel("L1", 1, 0, <<>>, <<LoLimit>>, FALSE),
           DisableNode("L2", "B"),
           ListLayers(<<>>), ListLayers(<<"L1">>) }
    \cup { CreateChannel("L3", "B", "C", 2, LoLimit, 1, TRUE),
           InformChannel("L3", 1, 0, <<>>, <<LoLimit>>, TRUE),
           InformChannel("L3", 1, 0, <<LoLimit>>, <<>>, TRUE),
           InformChannel("L3", 1, 0, <<>>, <<>>, TRUE),
           InformChannel("L1", 1, 0, <<LoLimit>>, <<HiLimit>>, TRUE),
           InformChannel("L1", 1, 1, <<LoLimit>>, <<>>, TRUE) }

NextChannels ==
    \/ \E c \in ChannelRequests : Request(c)
    \/ CreateChannelCmd
    \/ InformChannelCmd
    \/ DisableNodeCmd
    \/ ListLayersCmd

SpecChannels == Init /\ [][NextChannels]_vars

\* The create-channel being handled names a layer that holds a local channel
\* of its scid with other endpoints or another capacity.
Conflicts(c) ==
    \E i \in 1..Len(layers) :
        /\ layers[i].name = c.layer
        /\ \E lc \in layers[i].local_channels :
              /\ lc.scid = c.short_channel_id
              /\ \/ lc.n1 # c.source
                 \/ lc.n2 # c.destination
                 \/ lc.capacity # c.capacity_msat

\* Every local channel declared before the step is still declared, in the
\* same layer, with the same endpoints and capacity.
DeclarationsKept ==
    /\ Len(layers') >= Len(layers)
    /\ \A i \in 1..Len(layers) :
          /\ layers'[i].name = layers[i].name
          /\ \A lc \in layers[i].local_channels :
                \E lc2 \in layers'[i].local_channels :
                    /\ lc2.scid = lc.scid
                    /\ lc2.n1 = lc.n1
                    /\ lc2.n2 = lc.n2
                    /\ lc2.capacity = lc.capacity

\* C8: a create-channel that conflicts with a local channel its layer already
\* holds fails with "channel already exists with different values" and leaves
\* every layer unchanged; each layer holds at most one local channel per scid,
\* and no command changes the endpoints or the capacity of a local channel
\* once declared.
C8_CreateChannelConflict ==
    /\ [](\A i \in 1..Len(layers) :
            \A lc1 \in layers[i].local_channels, lc2 \in layers[i].local_channels :
                lc1.scid = lc2.scid => lc1 = lc2)
    /\ [][/\ DeclarationsKept
          /\ (Handling("askrene-create-channel") /\ Conflicts(cmd)) =>
                /\ ~response'.ok
                /\ response'.code = JSONRPC2_INVALID_PARAMS
                /\ response'.info = "channel already exists with different values!"
                /\ layers' = layers
                /\ UNCHANGED <<gossmap, capacities, reserved>>]_vars

\* A conflicting create-channel has failed, on a layer of two local channels
\* where the one of its scid had its fee redeclared.
C8_Witness ==
    /\ pc = "idle"
    /\ response.cmd = "askrene-create-channel"
    /\ ~response.ok
    /\ \E i \in 1..Len(layers) :
          /\ layers[i].name = "L1"
          /\ Cardinality(layers[i].local_channels) = 2
          /\ \E lc \in layers[i].local_channels : lc.scid = 2 /\ lc.base_fee = 2

\* C11: a check-only create-channel or inform-channel fails exactly when the
\* real command would (a conflicting local channel; neither or both of
\* minimum_msat and maximum_msat), with the same error, and otherwise reports
\* the check done; either way the list of layers, every layer, the
\* reservation table, the capacity cache and the graph are unchanged, the
\* named layer not being made.
C11_CheckOnlyFrame ==
    [][/\ Handling("askrene-create-channel") =>
             /\ response'.ok = ~Conflicts(cmd)
             /\ cmd.check =>
                   /\ response'.ok => response'.result = [command_to_check |-> TRUE]
                   /\ ~response'.ok =>
                         /\ response'.code = JSONRPC2_INVALID_PARAMS
                         /\ response'.info = "channel already exists with different values!"
                   /\ UNCHANGED <<layers, reserved, capacities, gossmap>>
       /\ Handling("askrene-inform-channel") =>
             /\ response'.ok = ((cmd.minimum_msat = <<>>) # (cmd.maximum_msat = <<>>))
             /\ cmd.check =>
                   /\ response'.ok => response'.result = [command_to_check |-> TRUE]
                   /\ ~response'.ok => response'.code = JSONRPC2_INVALID_PARAMS
                   /\ UNCHANGED <<layers, reserved, capacities, gossmap>>]_vars

\* A check-only inform-channel naming a layer that does not exist has been
\* found valid, the layers being what they were: L1 with a local channel, no L3.
C11_Witness ==
    /\ pc = "idle"
    /\ response = [ok |-> TRUE, cmd |-> "askrene-inform-channel",
                   result |-> [command_to_check |-> TRUE]]
    /\ Len(layers) = 1
    /\ layers[1].name = "L1"
    /\ layers[1].local_channels # {}
    /\ layers[1].constraints = {}

\* A check-only create-channel that conflicts with the layer's local channel
\* has failed.
C11_WitnessConflict ==
    /\ pc = "handling"
    /\ cmd.name = "askrene-create-channel"
    /\ cmd.check
    /\ Conflicts(cmd)

(***************************************************************************)
(* Constraints informed and aged.                                          *)
(***************************************************************************)
InformRequests ==
    { InformChannel("L1", 1, 0, <<l>>, <<>>, FALSE) : l \in {LoLimit, HiLimit} }
    \cup { InformChannel("L1", 1, 0, <<>>, <<l>>, FALSE) : l \in {LoLimit, HiLimit} }
    \cup { InformChannel("L1", 1, 1, <<>>, <<LoLimit>>, FALSE),
           InformChannel("L2", 1, 0, <<>>, <<LoLimit>>, FALSE),
           InformChannel("L1", 1, 0, <<>>, <<LoLimit>>, TRUE),
           InformChannel("L3", 1, 0, <<>>, <<LoLimit>>, TRUE),
           InformChannel("L1", 1, 0, <<>>, <<>>, FALSE),
           InformChannel("L1", 1, 0, <<LoLimit>>, <<HiLimit>>, FALSE),
           InformChannel("L3", 1, 0, <<>>, <<>>, FALSE),
           InformChannel("L3", 1, 0, <<LoLimit>>, <<HiLimit>>, FALSE),
           InformChannel("L3", 1, 0, <<LoLimit>>, <<HiLimit>>, TRUE) }
    \cup { Age(l, cutoff) : l \in {"L1", "L2", "L3"}, cutoff \in 0..(MaxTime + 1) }
    \cup { CreateChannel("L1", "B", "C", 2, LoLimit, 1, FALSE),
           DisableNode("L1", "B") }

NextInform ==
    \/ \E c \in InformRequests : Request(c)
    \/ InformChannelCmd
    \/ AgeCmd
    \/ CreateChannelCmd
    \/ DisableNodeCmd
    \/ Tick

SpecInform == Init /\ [][NextInform]_vars

ExactlyOne(c) == (c.minimum_msat = <<>>) # (c.maximum_msat = <<>>)

KindOf(c) == IF c.minimum_msat # <<>> THEN CONSTRAINT_MIN ELSE CONSTRAINT_MAX

LimitOf(c) == IF c.minimum_msat # <<>> THEN c.minimum_msat[1] ELSE c.maximum_msat[1]

\* The constraints of a layer other than the one of this kind on this scidd.
OtherConstraints(layer, scidd, type) ==
    { k \in layer.constraints : ~(k.scid = scidd.scid /\ k.dir = scidd.dir /\ k.type = type) }

\* The step changed, in the layers, the constraint of c's kind on c's scidd in
\* c's layer and nothing else; the layer is made empty if it did not exist.
OnlyThatConstraintSet(c) ==
    LET scidd == Scidd(c.short_channel_id, c.direction)
        known == \E i \in 1..Len(layers) : layers[i].name = c.layer
        set == [scid |-> scidd.scid, dir |-> scidd.dir, type |-> KindOf(c),
                limit |-> LimitOf(c), timestamp |-> now]
    IN  /\ Len(layers') = IF known THEN Len(layers) ELSE Len(layers) + 1
        /\ \A i \in 1..Len(layers) :
              IF layers[i].name = c.layer
              THEN /\ layers'[i].name = layers[i].name
                   /\ layers'[i].local_channels = layers[i].local_channels
                   /\ layers'[i].disabled_nodes = layers[i].disabled_nodes
                   /\ OtherConstraints(layers'[i], scidd, KindOf(c))
                         = OtherConstraints(layers[i], scidd, KindOf(c))
                   /\ layers'[i].constraints \ OtherConstraints(layers'[i], scidd, KindOf(c))
                         = {set}
              ELSE layers'[i] = layers[i]
        /\ ~known =>
              layers'[Len(layers')] = [name |-> c.layer, local_channels |-> {},
                                       constraints |-> {set}, disabled_nodes |-> {}]

\* C9: an inform-channel succeeds only with exactly one of minimum_msat and
\* maximum_msat; it then sets the constraint of that kind on (layer, scid, dir),
\* stamped with the time, and changes nothing else (a check-only request
\* changes nothing at all); with neither or both it fails with invalid-params
\* and changes no state, the named layer not being made.
C9_InformOneKind ==
    [][Handling("askrene-inform-channel") =>
         /\ response'.ok => ExactlyOne(cmd)
         /\ ~ExactlyOne(cmd) =>
               /\ ~response'.ok
               /\ response'.code = JSONRPC2_INVALID_PARAMS
               /\ layers' = layers
         /\ (ExactlyOne(cmd) /\ cmd.check) => (response'.ok /\ layers' = layers)
         /\ (ExactlyOne(cmd) /\ ~cmd.check) => (response'.ok /\ OnlyThatConstraintSet(cmd))
         /\ UNCHANGED <<gossmap, capacities, reserved, now>>]_vars

\* An inform-channel has replaced the MAX constraint on (1, 0) of L1, a layer
\* that holds a MIN on that scidd, a MAX on the other direction, a local
\* channel and a disabled node, beside a layer L2 with a constraint.
C9_Witness ==
    /\ pc = "idle"
    /\ response.cmd = "askrene-inform-channel"
    /\ response.ok
    /\ now = 1
    /\ "constraint" \in DOMAIN response.result
    /\ response.result.constraint
          = [scid |-> 1, dir |-> 0, type |-> CONSTRAINT_MAX, limit |-> HiLimit, timestamp |-> 1]
    /\ Len(layers) = 2
    /\ \E i \in 1..2 :
          /\ layers[i].name = "L1"
          /\ Cardinality(layers[i].constraints) = 3
          /\ layers[i].local_channels # {}
          /\ layers[i].disabled_nodes # {}
          /\ \E k \in layers[i].constraints :
                k.type = CONSTRAINT_MIN /\ k.dir = 0 /\ k.timestamp = 0
          /\ layers[3 - i].constraints # {}

\* An inform-channel with both limits on a layer that does not exist has
\* failed, and the layer still does not exist.
C9_WitnessBadArgs ==
    /\ pc = "idle"
    /\ response.cmd = "askrene-inform-channel"
    /\ ~response.ok
    /\ layers # <<>>
    /\ \A i \in 1..Len(layers) : layers[i].name # "L3"

\* A layer list with the timestamps of the constraints left out.
Untimed(ls) ==
    [i \in 1..Len(ls) |->
        [ls[i] EXCEPT !.constraints =
            { [scid |-> k.scid, dir |-> k.dir, type |-> k.type, limit |-> k.limit] : k \in @ }]]

\* The constraints of c's kind on c's scidd in the layers of c's name.
ConstraintsAt(ls, c) ==
    { k \in UNION { ls[i].constraints : i \in { j \in 1..Len(ls) : ls[j].name = c.layer } } :
          /\ k.scid = c.short_channel_id
          /\ k.dir = c.direction
          /\ k.type = KindOf(c) }

\* C12: each layer holds at most one MIN and one MAX constraint per scidd; an
\* inform-channel that goes through leaves on (layer, scidd), for its kind,
\* the one constraint with its own limit (whatever the limit before, lower or
\* higher) stamped with the current time; and when the limit before was the
\* same, the layers are what they were but for that timestamp.
C12_ConstraintReplacement ==
    /\ [](\A i \in 1..Len(layers) :
            \A k1 \in layers[i].constraints, k2 \in layers[i].constraints :
                (k1.scid = k2.scid /\ k1.dir = k2.dir /\ k1.type = k2.type) => k1 = k2)
    /\ [][(Handling("askrene-inform-channel") /\ ExactlyOne(cmd) /\ ~cmd.check) =>
            /\ ConstraintsAt(layers', cmd)
                  = {[scid |-> cmd.short_channel_id, dir |-> cmd.direction,
                      type |-> KindOf(cmd), limit |-> LimitOf(cmd), timestamp |-> now]}
            /\ (\E k \in ConstraintsAt(layers, cmd) : k.limit = LimitOf(cmd)) =>
                  Untimed(layers') = Untimed(layers)]_vars

\* An inform-channel is being handled that lowers the MIN of (1, 0) in L1,
\* informed at an earlier time, the layer holding a MAX on that scidd too.
C12_Witness ==
    /\ Handling("askrene-inform-channel")
    /\ cmd = InformChannel("L1", 1, 0, <<LoLimit>>, <<>>, FALSE)
    /\ now = 1
    /\ ConstraintsAt(layers, cmd)
          = {[scid |-> 1, dir |-> 0, type |-> CONSTRAINT_MIN, limit |-> HiLimit, timestamp |-> 0]}
    /\ \E i \in 1..Len(layers) :
          /\ layers[i].name = "L1"
          /\ \E k \in layers[i].constraints : k.type = CONSTRAINT_MAX /\ k.dir = 0

\* C10: age(layer, cutoff) on an existing layer leaves in it exactly the
\* constraints with timestamp >= cutoff, unchanged; num_removed is the number
\* of constraints removed; the layer's local channels and disabled nodes, and
\* all other layers, are unchanged.
C10_AgingSoundness ==
    [][(Handling("askrene-age") /\ \E i \in 1..Len(layers) : layers[i].name = cmd.layer) =>
         /\ response'.ok
         /\ Len(layers') = Len(layers)
         /\ \A i \in 1..Len(layers) :
               IF layers[i].name = cmd.layer
               THEN /\ layers'[i].name = layers[i].name
                    /\ layers'[i].local_channels = layers[i].local_channels
                    /\ layers'[i].disabled_nodes = layers[i].disabled_nodes
                    /\ layers'[i].constraints
                          = { k \in layers[i].constraints : k.timestamp >= cmd.cutoff }
                    /\ \A k \in layers'[i].constraints : ~(k.timestamp < cmd.cutoff)
                    /\ response'.result.layer = cmd.layer
                    /\ response'.result.num_removed
                          = Cardinality(layers[i].constraints \ layers'[i].constraints)
               ELSE layers'[i] = layers[i]
         /\ UNCHANGED <<gossmap, capacities, reserved, now>>]_vars

\* An age has removed one constraint and kept another, stamped with the very
\* cutoff, in a layer with a local channel and a disabled node, beside a layer
\* whose older constraint stays.
C10_Witness ==
    /\ pc = "idle"
    /\ response.cmd = "askrene-age"
    /\ response.ok
    /\ response.result = [layer |-> "L1", num_removed |-> 1]
    /\ Len(layers) = 2
    /\ \E i \in 1..2 :
          /\ layers[i].name = "L1"
          /\ \E k \in layers[i].constraints : k.timestamp = MaxTime
          /\ \A k \in layers[i].constraints : k.timestamp >= MaxTime
          /\ layers[i].local_channels # {}
          /\ layers[i].disabled_nodes # {}
          /\ \E k \in layers[3 - i].constraints : k.timestamp = 0

\* C17: an age naming a layer that does not exist fails with invalid-params
\* "Unknown layer" and changes no state, the layer not being made; a
\* create-channel, inform-channel or disable-node that goes through on a name
\* with no layer makes the layer.
C17_AgeKnownLayer ==
    [][/\ (Handling("askrene-age") /\ \A i \in 1..Len(layers) : layers[i].name # cmd.layer) =>
             /\ ~response'.ok
             /\ response'.code = JSONRPC2_INVALID_PARAMS
             /\ response'.info = "Unknown layer"
             /\ UNCHANGED <<layers, gossmap, capacities, reserved, now>>
       /\ (/\ pc = "handling"
           /\ cmd.name \in {"askrene-create-channel", "askrene-inform-channel",
                            "askrene-disable-node"}
           /\ \A i \in 1..Len(layers) : layers[i].name # cmd.layer
           /\ response'.ok
           /\ response'.result # [command_to_check |-> TRUE]) =>
             /\ Len(layers') = Len(layers) + 1
             /\ layers'[Len(layers')].name = cmd.layer
             /\ \A i \in 1..Len(layers) : layers'[i] = layers[i]]_vars

\* An age on L3, which does not exist, has failed; the layers there are keep
\* constraints of every age.
C17_Witness ==
    /\ pc = "idle"
    /\ response.cmd = "askrene-age"
    /\ ~response.ok
    /\ Len(layers) = 2
    /\ \A i \in 1..Len(layers) : layers[i].name # "L3"
    /\ \E k \in layers[1].constraints : k.timestamp = 0
    /\ \E k \in layers[2].constraints : k.timestamp = 0

(***************************************************************************)
(* Nodes disabled in layers, and the routes returned.                      *)
(***************************************************************************)
DisableLayerLists == {<<>>, <<"L1">>, <<"L1", "L2">>}

DisableRequests ==
    { GetRoutes("A", dest, LoLimit, names) : dest \in {"B", "C"}, names \in DisableLayerLists }
    \cup { DisableNode("L1", "B"), DisableNode("L1", "C"), DisableNode("L2", "B") }
    \cup { InformChannel("L1", 1, 0, <<>>, <<LoLimit>>, FALSE),
           CreateChannel("L1", "B", "C", 2, LoLimit, 1, FALSE) }

NextDisable ==
    \/ \E c \in DisableRequests : Request(c)
    \/ GetRoutesBuild
    \/ GetRoutesReturn
    \/ GetRoutesCrash
    \/ DisableNodeCmd
    \/ InformChannelCmd
    \/ CreateChannelCmd

SpecDisable == Init /\ [][NextDisable]_vars

\* The channels of the graph no disabled node is an end of.
EnabledChans(g) ==
    { c \in GraphChans(g) : c.n1 \notin g.mods.disabled /\ c.n2 \notin g.mods.disabled }

\* The nodes reached from a set of nodes over enabled channels.
RECURSIVE ReachedFrom(_, _)
ReachedFrom(g, seen) ==
    LET more == seen \cup { c.n2 : c \in { e \in EnabledChans(g) : e.n1 \in seen } }
                     \cup { c.n1 : c \in { e \in EnabledChans(g) : e.n2 \in seen } }
    IN  IF more = seen THEN seen ELSE ReachedFrom(g, more)

Routable(g, source, destination) == destination \in ReachedFrom(g, {source})

\* C13 as stated: a getroutes that returns routes returns none with a hop
\* that arrives at a node disabled in a selected layer (such a hop would use a
\* channel adjacent to it, and every intermediate node is arrived at); and
\* when the disabled nodes cut the destination off from the source, as B
\* disabled cuts A-B-C, the command fails with the no-route error.
C13_Original ==
    [][(pc = "routing" /\ pc' = "idle") =>
         /\ response'.ok =>
               \A r \in 1..Len(response'.result) :
                  \A h \in 1..Len(response'.result[r].path) :
                     response'.result[r].path[h].node_id \notin gossmap.mods.disabled
         /\ ~Routable(gossmap, cmd.source, cmd.destination) =>
               /\ ~response'.ok
               /\ response'.code = PAY_ROUTE_NOT_FOUND]_vars

\* The layers other than those of this name are what they were, and the
\* layers of this name have their name, constraints and local channels.
OnlyDisabledSetChanged(layername) ==
    \A i \in 1..Len(layers) :
        IF layers[i].name = layername
        THEN /\ layers'[i].name = layers[i].name
             /\ layers'[i].constraints = layers[i].constraints
             /\ layers'[i].local_channels = layers[i].local_channels
        ELSE layers'[i] = layers[i]

\* C14: disable-node never fails; it makes the layer if there is none, with
\* the node as its only content, and otherwise adds the node to the layer's
\* disabled set, its constraints and local channels being kept; on a layer
\* that has the node disabled already it changes nothing, so that every
\* query builds the same context and gets the same answers as before.
C14_DisableNodeIdempotent ==
    [][Handling("askrene-disable-node") =>
         LET known == \E i \in 1..Len(layers) : layers[i].name = cmd.layer IN
         /\ response'.ok
         /\ UNCHANGED <<gossmap, capacities, reserved>>
         /\ Len(layers') = IF known THEN Len(layers) ELSE Len(layers) + 1
         /\ OnlyDisabledSetChanged(cmd.layer)
         /\ \A i \in 1..Len(layers) :
               layers[i].name = cmd.layer =>
                  layers'[i].disabled_nodes = layers[i].disabled_nodes \cup {cmd.node}
         /\ ~known =>
               layers'[Len(layers')] = [name |-> cmd.layer, local_channels |-> {},
                                        constraints |-> {}, disabled_nodes |-> {cmd.node}]
         /\ (\E i \in 1..Len(layers) :
                layers[i].name = cmd.layer /\ cmd.node \in layers[i].disabled_nodes) =>
               /\ layers' = layers
               /\ \A names \in DisableLayerLists :
                     /\ BuildQuery(layers', reserved', gossmap', capacities', names)
                           = BuildQuery(layers, reserved, gossmap, capacities, names)
                     /\ \A chan \in PublicChans(gossmap.version) : \A dir \in Dirs :
                           QueryAnswer(layers', reserved', gossmap', capacities',
                                       names, chan.scid, dir)
                              = QueryAnswer(layers, reserved, gossmap, capacities,
                                            names, chan.scid, dir)]_vars

\* B is being disabled in L1 a second time, L1 holding another disabled node,
\* a constraint and a local channel.
C14_Witness ==
    /\ Handling("askrene-disable-node")
    /\ cmd = DisableNode("L1", "B")
    /\ \E i \in 1..Len(layers) :
          /\ layers[i].name = "L1"
          /\ layers[i].disabled_nodes = {"B", "C"}
          /\ layers[i].constraints # {}
          /\ layers[i].local_channels # {}

(***************************************************************************)
(* The fold of get_constraints over lists of layers.                       *)
(***************************************************************************)
FoldLayerLists ==
    {<<>>, <<"L1">>, <<"L1", "L2">>, <<"L2", "L1">>}

FoldRequests ==
    { GetRoutes("A", "B", LoLimit, names) : names \in FoldLayerLists }
    \cup { InformChannel("L1", 1, 0, <<LoLimit>>, <<>>, FALSE),
           InformChannel("L1", 1, 0, <<>>, <<HiLimit>>, FALSE),
           InformChannel("L2", 1, 0, <<LoLimit + 1>>, <<>>, FALSE),
           InformChannel("L2", 1, 0, <<>>, <<LoLimit + 2>>, FALSE),
           InformChannel("L2", 4, 0, <<>>, <<LoLimit>>, FALSE) }
    \cup { CreateChannel("L1", "B", "C", 4, LoLimit, 1, FALSE),
           CreateChannel("L2", "C", "B", 4, HiLimit, 1, FALSE) }
    \cup { Reserve(<<[scidd |-> Scidd(1, 0), amount |-> LoLimit]>>),
           Unreserve(<<[scidd |-> Scidd(1, 0), amount |-> LoLimit]>>) }

NextFold ==
    \/ \E c \in FoldRequests : WithinMaxHtlcs(c) /\ Request(c)
    \/ GetRoutesBuild
    \/ GetRoutesReturn
    \/ GetRoutesCrash
    \/ InformChannelCmd
    \/ CreateChannelCmd
    \/ ReserveCmd
    \/ UnreserveCmd

SpecFold == Init /\ [][NextFold]_vars

\* The lists a list of names can be reordered into, and those with one of
\* its names once more at the end.
Variants(names) ==
    LET n == Len(names)
        perms == { f \in [1..n -> 1..n] : \A i \in 1..n : \A j \in 1..n : f[i] = f[j] => i = j }
        reordered == { [i \in 1..n |-> names[f[i]]] : f \in perms }
    IN  reordered \cup { Append(names, names[i]) : i \in 1..n }

\* The scids of the graph a query with these names runs on.
QueryScids(ls, g, names) ==
    LET q == BuildQuery(ls, {}, g, <<>>, names) IN
    { c.scid : c \in GraphChans(gossmap_apply_localmods(g, q.localmods)) }

\* What get_constraints answers for a channel of the graph, public or local.
GraphAnswer(ls, table, g, caps, names, scid, dir) ==
    LET q == BuildQuery(ls, table, g, caps, names)
        g1 == gossmap_apply_localmods(g, q.localmods)
        chan == CHOOSE c \in GraphChans(g1) : c.scid = scid
    IN  get_constraints(q, ls, table, g1, chan, dir)

AnswersFromCache(ls, table, g, caps, names, scid) ==
    LET q == BuildQuery(ls, table, g, caps, names)
        g1 == gossmap_apply_localmods(g, q.localmods)
    IN  FastPath(q, g1, CHOOSE c \in GraphChans(g1) : c.scid = scid)

\* The limits of one kind the layers of these names hold on a scidd.
SelectedLimits(ls, names, scidd, type) ==
    { k.limit : k \in { c \in UNION { ls[i].constraints :
                                        i \in { j \in 1..Len(ls) :
                                                  \E n \in 1..Len(names) : names[n] = ls[j].name } } :
                            c.scid = scidd.scid /\ c.dir = scidd.dir /\ c.type = type } }

Greatest(S) == CHOOSE x \in S : \A y \in S : y <= x

Least(S) == CHOOSE x \in S : \A y \in S : x <= y

ReservedOn(table, scidd) ==
    IF \E r \in table : r.scid = scidd.scid /\ r.dir = scidd.dir
    THEN (CHOOSE r \in table : r.scid = scidd.scid /\ r.dir = scidd.dir).amount
    ELSE 0

\* The slow-path answer: the greatest MIN (0 if none) and the least MAX (the
\* given bound if none), each less the reserved amount, saturating at 0.
FoldedAnswer(ls, table, names, scidd, unbounded) ==
    LET mins == SelectedLimits(ls, names, scidd, CONSTRAINT_MIN)
        maxs == SelectedLimits(ls, names, scidd, CONSTRAINT_MAX)
    IN  [min |-> SaturatingSub(Greatest(mins \cup {0}), ReservedOn(table, scidd)),
         max |-> SaturatingSub(IF maxs = {} THEN unbounded ELSE Least(maxs),
                               ReservedOn(table, scidd))]

C20_FastPathGuard ==
    pc = "routing" =>
        \A chan \in GraphChans(gossmap) :
            /\ (~chan.local /\ rq.capacities[chan.idx + 1] # 0) =>
                  /\ \A dir \in Dirs : ~HasReserve(reserved, Scidd(chan.scid, dir))
                  /\ NoSelectedAssertion(rq, layers, chan.scid)
            /\ FastPath(rq, gossmap, chan) =>
                  /\ ~chan.local
                  /\ \A dir \in Dirs :
                        /\ ReservedOn(reserved, Scidd(chan.scid, dir)) = 0
                        /\ SelectedLimits(layers, cmd.layers, Scidd(chan.scid, dir),
                                          CONSTRAINT_MIN) = {}
                        /\ SelectedLimits(layers, cmd.layers, Scidd(chan.scid, dir),
                                          CONSTRAINT_MAX) = {}
                        /\ get_constraints(rq, layers, reserved, gossmap, chan, dir).min = 0

\* A query with a layer selected that disables a node, direction 1 of
\* channel 1 being reserved and direction 0 not: channel 1 is answered off
\* the cache in both directions, channel 2 from it.
C20_Witness ==
    /\ pc = "routing"
    /\ gossmap.version = 1
    /\ rq.layers # <<>>
    /\ gossmap.mods.disabled # {}
    /\ HasReserve(reserved, Scidd(1, 1))
    /\ ~HasReserve(reserved, Scidd(1, 0))
    /\ NoSelectedAssertion(rq, layers, 1)
    /\ ~FastPath(rq, gossmap, PublicChan(gossmap, 1))
    /\ FastPath(rq, gossmap, PublicChan(gossmap, 2))

(***************************************************************************)
(* The list of layers under every command that names layers.               *)
(***************************************************************************)
LayerRequests ==
    { CreateChannel(l, "B", "C", 2, LoLimit, 1, check) :
          l \in {"L1", "L2"}, check \in BOOLEAN }
    \cup { CreateChannel("L1", "C", "B", 2, LoLimit, 1, FALSE),
           CreateChannel("L3", "B", "C", 2, LoLimit, 1, TRUE) }
    \cup { InformChannel(l, 1, 0, <<>>, <<LoLimit>>, check) :
          l \in {"L2", "L3"}, check \in BOOLEAN }
    \cup { InformChannel("L1", 1, 0, <<>>, <<>>, FALSE),
           InformChannel("L3", 1, 0, <<LoLimit>>, <<HiLimit>>, FALSE) }
    \cup { DisableNode(l, "B") : l \in {"L1", "L3"} }
    \cup { Age(l, 1) : l \in {"L1", "L2", "L3"} }
    \cup { ListLayers(<<>>), ListLayers(<<"L3">>) }
    \cup { GetRoutes("A", "B", LoLimit, names) :
          names \in {<<"L1", "L3">>, <<"L3", "L2", "LX">>} }

NextLayers ==
    \/ \E c \in LayerRequests : Request(c)
    \/ CreateChannelCmd
    \/ InformChannelCmd
    \/ DisableNodeCmd
    \/ AgeCmd
    \/ ListLayersCmd
    \/ GetRoutesBuild
    \/ GetRoutesReturn
    \/ GetRoutesCrash

SpecLayers == Init /\ [][NextLayers]_vars

\* C19: no two layers have the same name; no step removes or renames a layer;
\* and a step that adds a layer adds one, of the name given, at the end, and is
\* a create-channel, inform-channel or disable-node that goes through, is not
\* check-only, and names a layer that did not exist.
C19_LayerNamesUnique ==
    /\ [](\A i \in 1..Len(layers) : \A j \in 1..Len(layers) :
             layers[i].name = layers[j].name => i = j)
    /\ [][/\ Len(layers') >= Len(layers)
          /\ \A i \in 1..Len(layers) : layers'[i].name = layers[i].name
          /\ Len(layers') # Len(layers) =>
                /\ Len(layers') = Len(layers) + 1
                /\ pc = "handling"
                /\ cmd.name \in {"askrene-create-channel", "askrene-inform-channel",
                                 "askrene-disable-node"}
                /\ cmd.name # "askrene-disable-node" => ~cmd.check
                /\ \A i \in 1..Len(layers) : layers[i].name # cmd.layer
                /\ layers'[Len(layers')].name = cmd.layer
                /\ response'.ok]_vars

\* Three layers, each made by another command, after commands that failed,
\* were check-only, or named layers in a query.
C19_Witness ==
    /\ Len(layers) = 3
    /\ \E i \in 1..3 : layers[i].name = "L1" /\ layers[i].local_channels # {}
                       /\ layers[i].disabled_nodes # {}
    /\ \E i \in 1..3 : layers[i].name = "L2" /\ layers[i].constraints # {}
                       /\ layers[i].local_channels # {}
    /\ \E i \in 1..3 : layers[i].name = "L3" /\ layers[i].disabled_nodes # {}
                       /\ layers[i].constraints # {}
    /\ pc = "idle"
    /\ response.cmd = "askrene-disable-node"

(***************************************************************************)
(* The plugin, every command together.                                     *)
(***************************************************************************)
Requests ==
    ReserveRequests \cup QueryRequests \cup ChannelRequests \cup InformRequests
    \cup DisableRequests \cup FoldRequests \cup LayerRequests

Next ==
    \/ \E c \in Requests : WithinMaxHtlcs(c) /\ Request(c)
    \/ GetRoutesBuild
    \/ GetRoutesReturn
    \/ GetRoutesCrash
    \/ ReserveCmd
    \/ UnreserveCmd
    \/ CreateChannelCmd
    \/ InformChannelCmd
    \/ DisableNodeCmd
    \/ ListLayersCmd
    \/ AgeCmd
    \/ Tick

Spec == Init /\ [][Next]_vars

====
